---- MODULE Spec2Model ----
(***************************************************************************)
(* Lifecycle model of the go-sdk components: the gin listener service     *)
(* (httpserver/gin.go), the telemetry plugin and the simple plugin.        *)
(* Every statement of Run, Stop, Reload, Port and AddHandler that another  *)
(* goroutine can observe is one action.                                    *)
(***************************************************************************)
EXTENDS Integers, Sequences, FiniteSets, TLC

\* ---------------------------------------------------------------- bounds
MaxPort == 2        \* TCP ports 1..MaxPort exist; 0 asks the OS for a free one
MaxRuns == 2        \* Run invocations (direct or through Reload)
MaxStops == 2       \* Stop invocations (direct or through Reload)
MaxHandlers == 2    \* AddHandler invocations
MaxConns == 1       \* in-flight requests per server

\* Goroutines that call the listener's methods.  The host starts one goroutine
\* per component for Run (Runner); Reload is called from another (Reloader);
\* either may call Stop.  Port is called from a third (Client), and AddHandler,
\* which has no step another goroutine can observe, from any goroutine.
Runner == "a"
Reloader == "b"
Client == "c"
Callers == {Runner, Reloader, Client}
NoCaller == "-"
Ports == 1..MaxPort
\* A port another process is listening on.
ForeignPorts == {MaxPort + 1}
\* Ports a configuration may name (0 = OS-assigned).
ConfigPorts == (0..MaxPort) \cup ForeignPorts

VARIABLES
    Config,      \* gs.Config: [Port, BindAddr]; the address is the sequence of
                 \* its characters
    isEnabled,   \* gs.isEnabled
    handlers,    \* gs.handlers: the callbacks, named by their position
    svr,         \* gs.svr: 0 is nil, else an index of servers
    router,      \* gs.router: 0 is nil, else the index of the server it serves
    mu,          \* gs.mu: NoCaller or the goroutine holding it
    servers,     \* every myHttpServer built by Configure, with its router's routes
    lis,         \* every listener net.Listen returned
    th,          \* the calling goroutines: position and locals
    stops,       \* the goroutines started by Stop, one per call, with the channel
    exited,      \* the process was ended by logger.Fatalf
    runStarted,  \* history: some Run got past its isEnabled check
    runsLeft,    \* Run invocations still allowed by MaxRuns
    stopsLeft,   \* Stop invocations still allowed by MaxStops
    otel,        \* the OtelPlugin's fields; shutdown: 0 is nil, else an index of closures
    closures,    \* the shutdown functions SetupOTelSDK returned, each with its shutdownFuncs
    simple,      \* the simplePlugin's fields
    panicked,    \* the process was ended by a panic
    portFrom,    \* history: the listener Config.Port was last read back from
                 \* (0: it holds a configured port, from the flags or Reload)
    host,        \* the host service: its components and where its lifecycle is
    flags,       \* flag.CommandLine: the keys registered so far
    uri          \* what the last call of URI() returned (<<>>: not called yet)

\* The listener's own state, and the plugins'.
ginVars == <<Config, isEnabled, handlers, svr, router, mu, servers, lis, exited,
             runStarted, portFrom>>
pluginVars == <<otel, closures, simple, panicked>>
hostVars == <<host, flags, uri>>
vars == <<Config, isEnabled, handlers, svr, router, mu, servers, lis, th, stops,
          exited, runStarted, runsLeft, stopsLeft, otel, closures, simple, panicked,
          portFrom, host, flags, uri>>

\* ------------------------------------------------------------ construction
\* httpserver.New: no handlers, not enabled, nil server and router.
\* op: the method the goroutine is in; lis, snap, i: Run's locals; ch: the
\* channel Stop returned; cfg: the port of Reload's parameter; old: the port
\* the component was accepting on when Reload was called (0: none); ret:
\* "Reload" once Reload has returned nil, until the goroutine's next call.
\* The other locals are dropped when the method returns.
\* err: the error the goroutine's last call returned ("nil": none).
\* sd: otelShutdown, the telemetry shutdown function of the Run that sets
\* telemetry up (0: none, else an index of closures).
IdleThread == [pc |-> "idle", op |-> "none", lis |-> 0, snap |-> <<>>, i |-> 0,
               ch |-> 0, cfg |-> 0, old |-> 0, ret |-> "none", err |-> "nil",
               sd |-> 0]
\* Method `method` of goroutine t returns nil.
Return(t, method) ==
    [th EXCEPT ![t] = IF method = "Reload"
                      THEN [IdleThread EXCEPT !.cfg = th[t].cfg, !.old = th[t].old,
                                              !.ret = "Reload"]
                      ELSE IdleThread]
\* Method `method` of goroutine t returns the error e ("nil": none).
ReturnErr(t, method, e) ==
    IF e = "nil" THEN Return(t, method)
    ELSE [th EXCEPT ![t] = [IdleThread EXCEPT !.err = e]]
\* Goroutine t calls a method: what the last call returned is forgotten.
Call(t, method, pc) ==
    [th EXCEPT ![t] = [IdleThread EXCEPT !.pc = pc, !.op = method]]
\* A closed listener.
ClosedLis == [port |-> 0, open |-> FALSE, srv |-> 0]

New ==
    /\ isEnabled = FALSE
    /\ handlers = <<>>
    /\ svr = 0
    /\ router = 0
    /\ mu = NoCaller
    /\ servers = <<>>
    /\ lis = <<>>

\* InitFlags binds Config.Port to the flag value (any port, 0 included).
InitFlags == Config \in [Port : {0, 1}, BindAddr : {<<>>}]

\* NewOtelPlugin: enabled by default, empty names, no shutdown function yet.
NewOtelPlugin ==
    [isEnabled |-> TRUE, serviceName |-> "", serviceVersion |-> "",
     exporterOtlpEndpoint |-> "", isEnabledTrace |-> FALSE,
     isEnabledMetric |-> FALSE, isEnabledLog |-> FALSE, shutdown |-> 0]

\* NewSimplePlugin: the value is empty until InitFlags binds it.
NewSimplePlugin == [value |-> ""]

\* A host service over the components of `registry`, each [kind, name], in
\* registration order.  pc: the phase of its lifecycle; i: the component the
\* current phase has reached; flagged, configured: the components InitFlags
\* and Configure have been called on, in call order; err: what Init returned;
\* rounds: the times Shutdown has fanned Stop out; calls: the calls of
\* Shutdown that have returned; results: what each of them returned.
NewHost(registry) ==
    [pc |-> "created", registry |-> registry, i |-> 1, flagged |-> <<>>,
     configured |-> <<>>, err |-> "nil", rounds |-> 0,
     calls |-> 0, results |-> <<>>]

\* Nothing has been called yet on any component.
NotStarted ==
    /\ th = [t \in Callers |-> IdleThread]
    /\ flags = {}
    /\ uri = <<>>
    /\ stops = <<>>
    /\ exited = FALSE
    /\ panicked = FALSE
    /\ runStarted = FALSE
    /\ portFrom = 0
    /\ runsLeft = MaxRuns
    /\ stopsLeft = MaxStops
    /\ closures = <<>>

Init ==
    /\ New
    /\ InitFlags
    /\ NotStarted
    /\ host = NewHost(<<>>)
    /\ otel = NewOtelPlugin
    /\ simple = NewSimplePlugin

\* ------------------------------------------------------------------ helpers
OpenLis == {l \in 1..Len(lis) : lis[l].open}
BoundPorts == {lis[l].port : l \in OpenLis}
\* Listeners a server's Serve loop is accepting on.
Serving(s) == {l \in OpenLis : lis[l].srv = s}
Accepting == {l \in OpenLis : lis[l].srv # 0}
AcceptingOn(p) == \E l \in Accepting : lis[l].port = p

\* Mutant of getPort: the configured port instead of the listener's.
getPort_Configured(l) == Config.Port

\* getPort: the port of the live listener.
getPort(l) == lis[l].port

\* Port(): the value read under the mutex.
PortValue == Config.Port

\* logger.Fatalf: the process exits; the OS closes its sockets.
Fatal ==
    /\ exited' = TRUE
    /\ lis' = [l \in 1..Len(lis) |-> ClosedLis]

\* ---------------------------------------------------------------- AddHandler
AddHandler ==
    /\ ~exited
    /\ Len(handlers) < MaxHandlers
    /\ isEnabled' = TRUE
    /\ handlers' = Append(handlers, Len(handlers) + 1)
    /\ UNCHANGED <<Config, svr, router, mu, servers, lis, th, stops, exited,
                   runStarted, runsLeft, stopsLeft>>
    /\ UNCHANGED <<pluginVars, portFrom, hostVars>>

\* ---------------------------------------------------------------------- Run
\* Mutant of RunEnabledCheck: Run without its isEnabled check.
RunEnabledCheck_Always == TRUE

\* Run's first statement: a disabled service returns nil at once.
RunEnabledCheck == isEnabled

\* The entry of Run for goroutine t, called directly ("Run") or by Reload.
RunEntry(t, caller) ==
    IF RunEnabledCheck
    THEN /\ th' = [Call(t, caller, "run_configure") EXCEPT
                      ![t].cfg = IF caller = "Reload" THEN th[t].cfg ELSE 0,
                      ![t].old = IF caller = "Reload" THEN th[t].old ELSE 0]
         /\ runStarted' = TRUE
    ELSE /\ th' = Return(t, caller)
         /\ UNCHANGED runStarted

RunCall(t) ==
    /\ ~exited
    /\ th[t].pc = "idle"
    /\ runsLeft > 0
    /\ runsLeft' = runsLeft - 1
    /\ RunEntry(t, "Run")
    /\ UNCHANGED <<Config, isEnabled, handlers, svr, router, mu, servers, lis,
                   stops, exited, stopsLeft>>
    /\ UNCHANGED <<pluginVars, portFrom, hostVars>>

\* Configure: a fresh router and a fresh server serving it.
Configure ==
    /\ servers' = Append(servers, [routes |-> <<>>, inShutdown |-> FALSE, active |-> 0])
    /\ router' = Len(servers) + 1
    /\ svr' = Len(servers) + 1

RunConfigure(t) ==
    /\ ~exited
    /\ th[t].pc = "run_configure"
    /\ Configure
    /\ th' = [th EXCEPT ![t].pc = "run_range"]
    /\ UNCHANGED <<Config, isEnabled, handlers, mu, lis, stops, exited,
                   runStarted, runsLeft, stopsLeft>>
    /\ UNCHANGED <<pluginVars, portFrom, hostVars>>

\* `range gs.handlers` evaluates the slice once, when the loop starts.
RunRange(t) ==
    /\ ~exited
    /\ th[t].pc = "run_range"
    /\ th' = [th EXCEPT ![t].snap = handlers, ![t].i = 1,
                        ![t].pc = IF handlers = <<>> THEN "run_listen" ELSE "run_handlers"]
    /\ UNCHANGED <<Config, isEnabled, handlers, svr, router, mu, servers, lis,
                   stops, exited, runStarted, runsLeft, stopsLeft>>
    /\ UNCHANGED <<pluginVars, portFrom, hostVars>>

\* hdl(gs.router): the callback installs its routes on the router gs.router
\* names when the iteration runs.
InstallOn(r, h) == [servers EXCEPT ![r].routes = Append(@, h)]

RunInstall(t) ==
    /\ ~exited
    /\ th[t].pc = "run_handlers"
    /\ servers' = InstallOn(router, th[t].snap[th[t].i])
    /\ th' = [th EXCEPT ![t].i = @ + 1,
                        ![t].pc = IF th[t].i = Len(th[t].snap) THEN "run_listen"
                                  ELSE "run_handlers"]
    /\ UNCHANGED <<Config, isEnabled, handlers, svr, router, mu, lis, stops,
                   exited, runStarted, runsLeft, stopsLeft>>
    /\ UNCHANGED <<pluginVars, portFrom, hostVars>>

\* net.Listen("tcp", addr): the ports it can bind for the configured port.
ListenPorts(p) ==
    IF p = 0 THEN Ports \ BoundPorts ELSE ({p} \ ForeignPorts) \ BoundPorts

RunListen(t) ==
    /\ ~exited
    /\ th[t].pc = "run_listen"
    /\ IF ListenPorts(Config.Port) = {}
       THEN /\ Fatal
            /\ UNCHANGED th
       ELSE /\ \E q \in ListenPorts(Config.Port) :
                 lis' = Append(lis, [port |-> q, open |-> TRUE, srv |-> 0])
            /\ th' = [th EXCEPT ![t].lis = Len(lis) + 1, ![t].pc = "run_port"]
            /\ UNCHANGED exited
    /\ UNCHANGED <<Config, isEnabled, handlers, svr, router, mu, servers, stops,
                   runStarted, runsLeft, stopsLeft>>
    /\ UNCHANGED <<pluginVars, portFrom, hostVars>>

\* gs.Config.Port = getPort(lis), written without taking gs.mu.
RunPort(t) ==
    /\ ~exited
    /\ th[t].pc = "run_port"
    /\ Config' = [Config EXCEPT !.Port = getPort(th[t].lis)]
    /\ th' = [th EXCEPT ![t].pc = "run_serve"]
    /\ portFrom' = th[t].lis
    /\ UNCHANGED <<isEnabled, handlers, svr, router, mu, servers, lis, stops,
                   exited, runStarted, runsLeft, stopsLeft>>
    /\ UNCHANGED <<pluginVars, hostVars>>

\* Where Run's caller continues once Run has returned.
Returned(t) == th[t].op

\* http.ErrServerClosed, and the other errors Serve can return (its Accept
\* failed for good).
ErrServerClosed == "http: Server closed"
ServeErrors == {"accept tcp: use of closed network connection"}

\* Mutant of RunResult: every serve error is swallowed.
RunResult_Swallowed(err) == "nil"

\* if err != nil && err == http.ErrServerClosed { return nil }; return err
RunResult(err) == IF err = ErrServerClosed THEN "nil" ELSE err

\* gs.svr.Serve(lis): a server already shut down closes the listener and
\* returns ErrServerClosed, which Run turns into nil; otherwise it accepts.
RunServe(t) ==
    /\ ~exited
    /\ th[t].pc = "run_serve"
    /\ IF servers[svr].inShutdown
       THEN /\ lis' = [lis EXCEPT ![th[t].lis] = ClosedLis]
            /\ th' = ReturnErr(t, Returned(t), RunResult(ErrServerClosed))
       ELSE /\ lis' = [lis EXCEPT ![th[t].lis].srv = svr]
            /\ th' = [th EXCEPT ![t].pc = "serving"]
    /\ UNCHANGED <<Config, isEnabled, handlers, svr, router, mu, servers, stops,
                   exited, runStarted, runsLeft, stopsLeft>>
    /\ UNCHANGED <<pluginVars, portFrom, hostVars>>

\* Serve returns ErrServerClosed once Shutdown closed the listener: Run returns nil.
ServeReturn(t) ==
    /\ ~exited
    /\ th[t].pc = "serving"
    /\ ~lis[th[t].lis].open
    /\ th' = ReturnErr(t, Returned(t), RunResult(ErrServerClosed))
    /\ UNCHANGED <<Config, isEnabled, handlers, svr, router, mu, servers, lis,
                   stops, exited, runStarted, runsLeft, stopsLeft>>
    /\ UNCHANGED <<pluginVars, portFrom, hostVars>>

\* Serve's Accept fails for good while the server is not shutting down: Serve
\* closes the listener (its deferred l.Close()) and returns the error, which
\* Run returns.
ServeFail(t) ==
    /\ ~exited
    /\ th[t].pc = "serving"
    /\ lis[th[t].lis].open
    /\ \E e \in ServeErrors :
         th' = ReturnErr(t, Returned(t), RunResult(e))
    /\ lis' = [lis EXCEPT ![th[t].lis] = ClosedLis]
    /\ UNCHANGED <<Config, isEnabled, handlers, svr, router, mu, servers, stops,
                   exited, runStarted, runsLeft, stopsLeft>>
    /\ UNCHANGED <<pluginVars, portFrom, hostVars>>

\* --------------------------------------------------------------------- Stop
\* Stop: c := make(chan bool); go func() {...}(); return c.  The goroutine and
\* its channel are one entry of stops: comp is the component, pc its position,
\* srv the server it is shutting down, acks the values received from c.
\* The listener's goroutine shuts the server down and then sends; the
\* telemetry plugin's sends and then calls op.shutdown; the simple plugin's
\* only sends.
NewStop(comp) ==
    [comp |-> comp, pc |-> IF comp = "gin" THEN "begin" ELSE "send", srv |-> 0,
     acks |-> 0]

\* Mutant of StopCall: Stop shuts the server down itself before it returns,
\* and leaves only the send to the goroutine.
StopCall_Inline(t) ==
    /\ ~exited
    /\ th[t].pc = "idle"
    /\ stopsLeft > 0
    /\ stopsLeft' = stopsLeft - 1
    /\ IF svr = 0
       THEN /\ stops' = Append(stops, [NewStop("gin") EXCEPT !.pc = "send"])
            /\ UNCHANGED <<servers, lis>>
       ELSE /\ servers' = [servers EXCEPT ![svr].inShutdown = TRUE]
            /\ lis' = [l \in 1..Len(lis) |->
                         IF l \in Serving(svr) THEN ClosedLis
                         ELSE lis[l]]
            /\ stops' = Append(stops, [NewStop("gin") EXCEPT !.pc = "wait",
                                                             !.srv = svr])
    /\ \E recv \in BOOLEAN :
         th' = IF recv
               THEN [Call(t, "Stop", "stop_recv") EXCEPT ![t].ch = Len(stops) + 1]
               ELSE Return(t, "Stop")
    /\ UNCHANGED <<Config, isEnabled, handlers, svr, router, mu, exited,
                   runStarted, runsLeft>>
    /\ UNCHANGED <<pluginVars, portFrom, hostVars>>

StopCall(t) ==
    /\ ~exited
    /\ th[t].pc = "idle"
    /\ stopsLeft > 0
    /\ stopsLeft' = stopsLeft - 1
    /\ stops' = Append(stops, NewStop("gin"))
    /\ \E recv \in BOOLEAN :
         th' = IF recv
               THEN [Call(t, "Stop", "stop_recv") EXCEPT ![t].ch = Len(stops) + 1]
               ELSE Return(t, "Stop")
    /\ UNCHANGED <<Config, isEnabled, handlers, svr, router, mu, servers, lis,
                   exited, runStarted, runsLeft>>
    /\ UNCHANGED <<pluginVars, portFrom, hostVars>>

\* if gs.svr != nil { gs.svr.Shutdown(ctx) }: Shutdown marks the server as
\* shutting down and closes the listeners its Serve loops are accepting on.
StopShutdown(g) ==
    /\ ~exited
    /\ stops[g].comp = "gin"
    /\ stops[g].pc = "begin"
    /\ IF svr = 0
       THEN /\ stops' = [stops EXCEPT ![g].pc = "send"]
            /\ UNCHANGED <<servers, lis>>
       ELSE /\ servers' = [servers EXCEPT ![svr].inShutdown = TRUE]
            /\ lis' = [l \in 1..Len(lis) |->
                         IF l \in Serving(svr) THEN ClosedLis
                         ELSE lis[l]]
            /\ stops' = [stops EXCEPT ![g].pc = "wait", ![g].srv = svr]
    /\ UNCHANGED <<Config, isEnabled, handlers, svr, router, mu, th, exited,
                   runStarted, runsLeft, stopsLeft>>
    /\ UNCHANGED <<pluginVars, portFrom, hostVars>>

\* Shutdown(context.Background()) returns once no connection is active.
ShutdownReturns(s) == servers[s].active = 0

StopWait(g) ==
    /\ ~exited
    /\ stops[g].pc = "wait"
    /\ ShutdownReturns(stops[g].srv)
    /\ stops' = [stops EXCEPT ![g].pc = "send"]
    /\ UNCHANGED <<Config, isEnabled, handlers, svr, router, mu, servers, lis, th,
                   exited, runStarted, runsLeft, stopsLeft>>
    /\ UNCHANGED <<pluginVars, portFrom, hostVars>>

\* c <- true meets <-c: the channel is unbuffered, so the send completes only
\* with a goroutine receiving from that channel.
Receiving(t, g) == th[t].pc \in {"stop_recv", "reload_recv"} /\ th[t].ch = g

\* What the goroutine of component comp does after its send.
AfterSend(comp) == IF comp = "otel" THEN "shutdown" ELSE "done"

StopSend(g, t) ==
    /\ ~exited
    /\ stops[g].comp = "gin"
    /\ stops[g].pc = "send"
    /\ Receiving(t, g)
    /\ stops' = [stops EXCEPT ![g].pc = AfterSend("gin"), ![g].srv = 0, ![g].acks = @ + 1]
    /\ th' = IF th[t].pc = "reload_recv"
             THEN [th EXCEPT ![t].pc = "reload_run"]
             ELSE Return(t, "Stop")
    /\ UNCHANGED <<Config, isEnabled, handlers, svr, router, mu, servers, lis,
                   exited, runStarted, runsLeft, stopsLeft>>
    /\ UNCHANGED <<pluginVars, portFrom, hostVars>>

\* ------------------------------------------------------------------- Reload
\* gs.Config = config; <-gs.Stop(); return gs.Run()
\* Mutant of ReloadStore: Reload keeping the port it had.
ReloadStore_KeepPort(c) == [c EXCEPT !.Port = Config.Port]

\* gs.Config = config
ReloadStore(c) == c

Reload(t, c) ==
    /\ ~exited
    /\ th[t].pc = "idle"
    /\ stopsLeft > 0
    /\ runsLeft > 0
    /\ stopsLeft' = stopsLeft - 1
    /\ runsLeft' = runsLeft - 1
    /\ Config' = ReloadStore(c)
    /\ portFrom' = 0
    /\ stops' = Append(stops, NewStop("gin"))
    /\ th' = [Call(t, "Reload", "reload_recv") EXCEPT
                 ![t].ch = Len(stops) + 1,
                 ![t].cfg = c.Port,
                 ![t].old = IF Accepting = {} THEN 0
                            ELSE lis[CHOOSE l \in Accepting : TRUE].port]
    /\ UNCHANGED <<isEnabled, handlers, svr, router, mu, servers, lis, exited,
                   runStarted>>
    /\ UNCHANGED <<pluginVars, hostVars>>

ReloadRun(t) ==
    /\ ~exited
    /\ th[t].pc = "reload_run"
    /\ RunEntry(t, "Reload")
    /\ UNCHANGED <<Config, isEnabled, handlers, svr, router, mu, servers, lis,
                   stops, exited, runsLeft, stopsLeft>>
    /\ UNCHANGED <<pluginVars, portFrom, hostVars>>

\* --------------------------------------------------------------------- Port
\* gs.mu.Lock(); defer gs.mu.Unlock(); return gs.Config.Port
PortLock(t) ==
    /\ ~exited
    /\ th[t].pc = "idle"
    /\ mu = NoCaller
    /\ mu' = t
    /\ th' = Call(t, "Port", "port_read")
    /\ UNCHANGED <<Config, isEnabled, handlers, svr, router, servers, lis, stops,
                   exited, runStarted, runsLeft, stopsLeft>>
    /\ UNCHANGED <<pluginVars, portFrom, hostVars>>

PortReturn(t) ==
    /\ ~exited
    /\ th[t].pc = "port_read"
    /\ mu' = NoCaller
    /\ th' = Return(t, "Port")
    /\ UNCHANGED <<Config, isEnabled, handlers, svr, router, servers, lis, stops,
                   exited, runStarted, runsLeft, stopsLeft>>
    /\ UNCHANGED <<pluginVars, portFrom, hostVars>>

\* ---------------------------------------------------------------- IsRunning
\* return gs.svr != nil
IsRunning == svr # 0

\* ----------------------------------------------------------------- requests
\* A client's request is accepted by a serving listener and stays in flight
\* until its handler returns.
RequestArrive(s) ==
    /\ ~exited
    /\ Serving(s) # {}
    /\ servers[s].active < MaxConns
    /\ servers' = [servers EXCEPT ![s].active = @ + 1]
    /\ UNCHANGED <<Config, isEnabled, handlers, svr, router, mu, lis, th, stops,
                   exited, runStarted, runsLeft, stopsLeft>>
    /\ UNCHANGED <<pluginVars, portFrom, hostVars>>

RequestFinish(s) ==
    /\ ~exited
    /\ servers[s].active > 0
    /\ servers' = [servers EXCEPT ![s].active = @ - 1]
    /\ UNCHANGED <<Config, isEnabled, handlers, svr, router, mu, lis, th, stops,
                   exited, runStarted, runsLeft, stopsLeft>>
    /\ UNCHANGED <<pluginVars, portFrom, hostVars>>

\* The configurations Reload is called with.
ReloadConfigs == [Port : ConfigPorts, BindAddr : {<<>>}]

Next ==
    \/ AddHandler
    \/ RunCall(Runner)
    \/ \E t \in Callers : RunConfigure(t)
    \/ \E t \in Callers : RunRange(t)
    \/ \E t \in Callers : RunInstall(t)
    \/ \E t \in Callers : RunListen(t)
    \/ \E t \in Callers : RunPort(t)
    \/ \E t \in Callers : RunServe(t)
    \/ \E t \in Callers : ServeReturn(t)
    \/ \E t \in Callers : ServeFail(t)
    \/ \E t \in {Runner, Reloader} : StopCall(t)
    \/ \E g \in 1..Len(stops) : StopShutdown(g)
    \/ \E g \in 1..Len(stops) : StopWait(g)
    \/ \E g \in 1..Len(stops), t \in Callers : StopSend(g, t)
    \/ \E c \in ReloadConfigs : Reload(Reloader, c)
    \/ ReloadRun(Reloader)
    \/ PortLock(Client)
    \/ PortReturn(Client)
    \/ \E s \in 1..Len(servers) : RequestArrive(s)
    \/ \E s \in 1..Len(servers) : RequestFinish(s)

Spec == Init /\ [][Next]_vars

\* The steps of goroutines that are already inside a method or inside Stop's
\* goroutine: the Go scheduler runs every runnable goroutine.  Whether a
\* caller calls a method, and whether a request's handler ever returns, is
\* not the program's to decide.
ThreadStep(t) ==
    \/ RunConfigure(t) \/ RunRange(t) \/ RunInstall(t) \/ RunListen(t)
    \/ RunPort(t) \/ RunServe(t) \/ ServeReturn(t)
    \/ (t = Reloader /\ ReloadRun(t))
    \/ (t = Client /\ PortReturn(t))
StopStep(g) ==
    /\ g \in 1..Len(stops)
    /\ (StopShutdown(g) \/ StopWait(g) \/ \E t \in Callers : StopSend(g, t))

FairSpec ==
    /\ Spec
    /\ \A t \in Callers : WF_vars(ThreadStep(t))
    /\ \A g \in 1..MaxStops : WF_vars(StopStep(g))

\* ============================================================== the plugins
\* The telemetry providers, in the order SetupOTelSDK creates them.
Providers == <<"trace", "metric", "log">>

\* The flag values InitFlags binds.
OtelFlags ==
    [isEnabled : BOOLEAN, serviceName : {"", "svc"}, serviceVersion : {"", "1.0.0"},
     exporterOtlpEndpoint : {"", "http://localhost:4317"},
     isEnabledTrace : BOOLEAN, isEnabledMetric : BOOLEAN, isEnabledLog : BOOLEAN,
     shutdown : {0}]
SimpleFlags == [value : {"", "default value"}]

PluginInit ==
    /\ New
    /\ host = NewHost(<<>>)
    /\ Config = [Port |-> 0, BindAddr |-> <<>>]
    /\ NotStarted
    /\ otel \in OtelFlags
    /\ simple \in SimpleFlags

Dead == exited \/ panicked

\* The error Configure returns for an empty exporter endpoint.
ErrEndpointEmpty ==
    "if OTEL_IS_ENABLED=true, then otel exporter otlp endpoint is not empty, e.g. http://localhost:4317"

\* OtelPlugin.Configure: "nil" or the error.
OtelConfigure ==
    IF otel.serviceName = "" THEN "otel service name is empty"
    ELSE IF otel.serviceVersion = "" THEN "otel service version is empty"
    ELSE IF otel.exporterOtlpEndpoint = "" THEN ErrEndpointEmpty
    ELSE "nil"

OtelFeature(p) ==
    IF p = "trace" THEN otel.isEnabledTrace
    ELSE IF p = "metric" THEN otel.isEnabledMetric
    ELSE otel.isEnabledLog

\* The providers SetupOTelSDK is to create.
EnabledProviders == SelectSeq(Providers, OtelFeature)

\* Errors are the sequences of the errors errors.Join has put together, in
\* order; the empty sequence is nil.
Join(a, b) == a \o b
\* The error of the constructor of provider p, and of its Shutdown.
CreateErr(p) == <<"create", p>>
ShutdownErr(p) == <<"shutdown", p>>

\* The elements of a sequence.
Range(q) == {q[k] : k \in 1..Len(q)}

\* One pass of `for _, fn := range shutdownFuncs { err = errors.Join(err, fn(ctx)) }`
\* over fns, the cleanups in `bad` returning an error: the invocations made,
\* and the joined error.
Invocations(fns, bad) == [k \in 1..Len(fns) |-> [fn |-> fns[k], failed |-> fns[k] \in bad]]
CleanupErrs(fns, bad) ==
    LET Failing(p) == p \in bad
        failing == SelectSeq(fns, Failing)
    IN  [k \in 1..Len(failing) |-> ShutdownErr(failing[k])]

\* Mutant of ShutdownClosure: shutdownFuncs is not reset after the loop.
ShutdownClosure_KeepFuncs(c, bad) ==
    [c EXCEPT !.invoked = @ \o Invocations(c.funcs, bad),
              !.rets = Append(@, CleanupErrs(c.funcs, bad))]

\* shutdown(ctx): every registered cleanup is invoked and the errors are
\* joined, then shutdownFuncs = nil.  rets: what each call returned.
ShutdownClosure(c, bad) ==
    [c EXCEPT !.funcs = <<>>,
              !.invoked = @ \o Invocations(c.funcs, bad),
              !.rets = Append(@, CleanupErrs(c.funcs, bad))]

\* Mutant of SetupOTelSDK: handleErr keeps the creation error but does not
\* call shutdown.
SetupOTelSDK_NoCleanup(providers, f, bad) ==
    LET created == SubSeq(providers, 1, f - 1)
    IN  [created |-> created, funcs |-> created, invoked |-> <<>>,
         err |-> IF f <= Len(providers) THEN <<CreateErr(providers[f])>> ELSE <<>>,
         rets |-> <<>>]

\* SetupOTelSDK over `providers` where creating the f-th fails (none when f is
\* past the last) and the cleanups in `bad` return an error: the returned
\* shutdown closure with its shutdownFuncs, the cleanups invoked so far, and
\* the returned error.  Every provider created is appended to shutdownFuncs;
\* handleErr calls shutdown at once and joins its error to the creation error.
SetupOTelSDK(providers, f, bad) ==
    LET created == SubSeq(providers, 1, f - 1)
        registered == [created |-> created, funcs |-> created, invoked |-> <<>>,
                       err |-> <<>>, rets |-> <<>>]
        cleaned == ShutdownClosure(registered, bad)
    IN  IF f <= Len(providers)
        THEN [cleaned EXCEPT !.err = Join(<<CreateErr(providers[f])>>, cleaned.rets[1]),
                             !.rets = <<>>]
        ELSE registered

\* OtelPlugin.Run
OtelRun(t) ==
    /\ ~Dead
    /\ th[t].pc = "idle"
    /\ runsLeft > 0
    /\ runsLeft' = runsLeft - 1
    /\ IF otel.isEnabled /\ OtelConfigure = "nil"
       THEN \E f \in 1..(Len(EnabledProviders) + 1),
               bad \in SUBSET Range(EnabledProviders) :
              /\ f > Len(EnabledProviders) => bad = {}
              /\ bad \subseteq Range(SubSeq(EnabledProviders, 1, f - 1))
              /\ closures' = Append(closures, SetupOTelSDK(EnabledProviders, f, bad))
              /\ otel' = [otel EXCEPT !.shutdown = Len(closures) + 1]
       ELSE UNCHANGED <<otel, closures>>
    /\ UNCHANGED <<th, stops, stopsLeft, simple, panicked>>
    /\ UNCHANGED <<ginVars, hostVars>>

\* simplePlugin.Configure: "nil" or the error.
SimpleConfigure == IF simple.value = "" THEN "simple plugin value is empty" ELSE "nil"

\* simplePlugin.Run returns what Configure returns.
SimpleRun(t) ==
    /\ ~Dead
    /\ th[t].pc = "idle"
    /\ runsLeft > 0
    /\ runsLeft' = runsLeft - 1
    /\ UNCHANGED <<th, stops, stopsLeft, pluginVars>>
    /\ UNCHANGED <<ginVars, hostVars>>

\* OtelPlugin.Stop and simplePlugin.Stop: make the channel, start the goroutine.
PluginStop(t, comp) ==
    /\ ~Dead
    /\ th[t].pc = "idle"
    /\ stopsLeft > 0
    /\ stopsLeft' = stopsLeft - 1
    /\ stops' = Append(stops, NewStop(comp))
    /\ \E recv \in BOOLEAN :
         th' = IF recv
               THEN [Call(t, "Stop", "stop_recv") EXCEPT ![t].ch = Len(stops) + 1]
               ELSE Return(t, "Stop")
    /\ UNCHANGED <<runsLeft, pluginVars>>
    /\ UNCHANGED <<ginVars, hostVars>>

\* c <- true in a plugin's goroutine, met by the caller's receive.
PluginStopSend(g, t) ==
    /\ ~Dead
    /\ stops[g].comp # "gin"
    /\ stops[g].pc = "send"
    /\ Receiving(t, g)
    /\ stops' = [stops EXCEPT ![g].pc = AfterSend(stops[g].comp), ![g].acks = @ + 1]
    /\ th' = Return(t, "Stop")
    /\ UNCHANGED <<runsLeft, stopsLeft, pluginVars>>
    /\ UNCHANGED <<ginVars, hostVars>>

\* op.shutdown(op.ctx), after the send: calling the nil function panics.
OtelStopShutdown(g) ==
    /\ ~Dead
    /\ stops[g].comp = "otel"
    /\ stops[g].pc = "shutdown"
    /\ IF otel.shutdown = 0
       THEN /\ panicked' = TRUE
            /\ UNCHANGED <<stops, closures>>
       ELSE /\ \E bad \in SUBSET Range(closures[otel.shutdown].funcs) :
                 closures' = [closures EXCEPT
                                 ![otel.shutdown] = ShutdownClosure(@, bad)]
            /\ stops' = [stops EXCEPT ![g].pc = "done"]
            /\ UNCHANGED panicked
    /\ UNCHANGED <<th, runsLeft, stopsLeft, otel, simple>>
    /\ UNCHANGED <<ginVars, hostVars>>

PluginNext ==
    \/ OtelRun(Runner)
    \/ SimpleRun(Runner)
    \/ \E t \in {Runner, Client}, comp \in {"otel", "simple"} : PluginStop(t, comp)
    \/ \E g \in 1..Len(stops), t \in Callers : PluginStopSend(g, t)
    \/ \E g \in 1..Len(stops) : OtelStopShutdown(g)

PluginSpec == PluginInit /\ [][PluginNext]_vars

\* The steps of the goroutine a plugin's Stop started: the Go scheduler runs
\* it whenever it can take a step.  Whether a caller receives from the
\* channel is the caller's choice.
PluginStopStep(g) ==
    /\ g \in 1..Len(stops)
    /\ ((\E t \in Callers : PluginStopSend(g, t)) \/ OtelStopShutdown(g))

FairPluginSpec ==
    /\ PluginSpec
    /\ \A g \in 1..MaxStops : WF_vars(PluginStopStep(g))

\* =================================== the listener that sets up telemetry
\* httpserver/http_server.go: Run is the listener's Run with the telemetry
\* setup between the port read-back and Serve, and the shutdown deferred.

\* Error(): the text of a joined error, one line per error; "nil" for nil.
ErrLine(e) == e[1] \o " " \o e[2]
RECURSIVE ErrText(_)
ErrText(es) ==
    IF es = <<>> THEN "nil"
    ELSE IF Len(es) = 1 THEN ErrLine(es[1])
    ELSE ErrLine(es[1]) \o "\n" \o ErrText(Tail(es))

\* otelShutdown, err := otel.SetupOTelSDK(ctx, ...); if err != nil { return err }
\* The listener stays open when Run returns here.
HttpSetup(t) ==
    /\ ~Dead
    /\ th[t].pc = "run_serve"
    /\ th[t].sd = 0
    /\ \E f \in 1..(Len(Providers) + 1), bad \in SUBSET Range(Providers) :
         /\ f > Len(Providers) => bad = {}
         /\ bad \subseteq Range(SubSeq(Providers, 1, f - 1))
         /\ LET cl == SetupOTelSDK(Providers, f, bad)
            IN  /\ closures' = Append(closures, cl)
                /\ th' = IF cl.err # <<>>
                         THEN ReturnErr(t, "Run", ErrText(cl.err))
                         ELSE [th EXCEPT ![t].sd = Len(closures) + 1]
    /\ UNCHANGED <<stops, runsLeft, stopsLeft, otel, simple, panicked>>
    /\ UNCHANGED <<ginVars, hostVars>>

\* What Run returns when its return statement produced `result` and the
\* deferred otelShutdown then returned `deferred`:
\*   defer func() { err = errors.Join(err, otelShutdown(ctx)) }()
\* assigns the local err after the result was set; Run's result is unnamed.
RunDeferred(result, deferred) == result

\* Run returns `result`: the deferred function calls otelShutdown, whose
\* cleanups in `bad` return an error.
HttpReturn(t, result, bad) ==
    LET cl == ShutdownClosure(closures[th[t].sd], bad)
    IN  /\ closures' = [closures EXCEPT ![th[t].sd] = cl]
        /\ th' = ReturnErr(t, "Run", RunDeferred(result, cl.rets[Len(cl.rets)]))

\* err = gs.svr.Serve(lis), as in RunServe and ServeReturn.
HttpServe(t) ==
    /\ ~Dead
    /\ th[t].pc = "run_serve"
    /\ th[t].sd # 0
    /\ IF servers[svr].inShutdown
       THEN /\ lis' = [lis EXCEPT ![th[t].lis] = ClosedLis]
            /\ \E bad \in SUBSET Range(closures[th[t].sd].funcs) :
                 HttpReturn(t, RunResult(ErrServerClosed), bad)
       ELSE /\ lis' = [lis EXCEPT ![th[t].lis].srv = svr]
            /\ th' = [th EXCEPT ![t].pc = "serving"]
            /\ UNCHANGED closures
    /\ UNCHANGED <<Config, isEnabled, handlers, svr, router, mu, servers, exited,
                   runStarted, portFrom>>
    /\ UNCHANGED <<stops, runsLeft, stopsLeft, otel, simple, panicked, hostVars>>

\* Serve returns: ErrServerClosed after a Shutdown closed the listener, or
\* the error of an Accept that failed for good.
HttpServeReturn(t) ==
    /\ ~Dead
    /\ th[t].pc = "serving"
    /\ th[t].sd # 0
    /\ \E e \in {ErrServerClosed} \cup ServeErrors,
          bad \in SUBSET Range(closures[th[t].sd].funcs) :
         /\ e = ErrServerClosed <=> ~lis[th[t].lis].open
         /\ HttpReturn(t, RunResult(e), bad)
    /\ lis' = [lis EXCEPT ![th[t].lis] = ClosedLis]
    /\ UNCHANGED <<Config, isEnabled, handlers, svr, router, mu, servers, exited,
                   runStarted, portFrom>>
    /\ UNCHANGED <<stops, runsLeft, stopsLeft, otel, simple, panicked, hostVars>>

HttpInit ==
    /\ New
    /\ InitFlags
    /\ NotStarted
    /\ host = NewHost(<<>>)
    /\ otel = NewOtelPlugin
    /\ simple = NewSimplePlugin

HttpNext ==
    \/ AddHandler
    \/ RunCall(Runner)
    \/ RunConfigure(Runner)
    \/ RunRange(Runner)
    \/ RunInstall(Runner)
    \/ RunListen(Runner)
    \/ RunPort(Runner)
    \/ HttpSetup(Runner)
    \/ HttpServe(Runner)
    \/ HttpServeReturn(Runner)
    \/ StopCall(Reloader)
    \/ \E g \in 1..Len(stops) : StopShutdown(g)
    \/ \E g \in 1..Len(stops) : StopWait(g)
    \/ \E g \in 1..Len(stops) : StopSend(g, Reloader)
    \/ \E r \in 1..Len(servers) : RequestArrive(r)
    \/ \E r \in 1..Len(servers) : RequestFinish(r)

HttpSpec == HttpInit /\ [][HttpNext]_vars

\* ======================================================== flag registration
\* Component names the host may be given.
Names == {"gin", "a", "a-is-enabled", "a-service"}
Kinds == {"gin", "otel", "simple"}
ComponentsOf == [kind : Kinds, name : Names]

\* ginService.InitFlags: prefix := "gin", whatever the component's name.
GinFlagKeys(name) ==
    {"gin" \o "-port", "gin" \o "-addr", "gin" \o "-mode", "gin" \o "-no-logger"}

\* OtelPlugin.InitFlags: op.prefix (the name) qualifies every key.
OtelFlagKeys(name) ==
    {name \o "-is-enabled", name \o "-service-name", name \o "-service-version",
     name \o "-exporter-otlp-endpoint", name \o "-exporter-otlp-protocol",
     name \o "-is-enabled-trace", name \o "-is-enabled-metric",
     name \o "-is-enabled-log"}

\* simplePlugin.InitFlags: fmt.Sprintf("%s-value", s.name)
SimpleFlagKeys(name) == {name \o "-value"}

\* The keys a component's InitFlags registers.
InitFlagsKeys(c) ==
    IF c.kind = "gin" THEN GinFlagKeys(c.name)
    ELSE IF c.kind = "otel" THEN OtelFlagKeys(c.name)
    ELSE SimpleFlagKeys(c.name)

\* InitFlags of the component the host has reached: flag.XxxVar registers each
\* key on flag.CommandLine, which panics ("flag redefined") on a key it holds.
HostInitFlags ==
    /\ ~Dead
    /\ host.pc \in {"created", "initflags"}
    /\ host.i <= Len(host.registry)
    /\ LET keys == InitFlagsKeys(host.registry[host.i])
       IN  IF keys \cap flags # {}
           THEN /\ panicked' = TRUE
                /\ UNCHANGED <<flags, host, uri>>
           ELSE /\ flags' = flags \cup keys
                /\ host' = [host EXCEPT !.pc = "initflags", !.i = @ + 1,
                                        !.flagged = Append(@, host.registry[host.i].name)]
                /\ UNCHANGED <<panicked, uri>>
    /\ UNCHANGED <<th, stops, runsLeft, stopsLeft, otel, closures, simple>>
    /\ UNCHANGED ginVars

\* Two components constructed with different names.
FlagInit ==
    /\ New
    /\ Config = [Port |-> 0, BindAddr |-> <<>>]
    /\ NotStarted
    /\ otel = NewOtelPlugin
    /\ simple = NewSimplePlugin
    /\ \E c1, c2 \in ComponentsOf :
         /\ c1.name # c2.name
         /\ host = NewHost(<<c1, c2>>)

FlagNext == HostInitFlags

FlagSpec == FlagInit /\ [][FlagNext]_vars

\* ============================================================ bind address
MaxAddrLen == 3     \* characters of a bind address
\* The characters of a bind address: a letter, and the three formatBindAddr
\* looks at or writes.
AddrChars == {"a", ":", "[", "]"}
Addrs == UNION {[1..n -> AddrChars] : n \in 0..MaxAddrLen}
\* The default of the port flag.
defaultPort == 3000
BindPorts == ConfigPorts \cup {defaultPort}

\* strings.Contains(s, c) for a one-character c.
Contains(s, c) == \E k \in 1..Len(s) : s[k] = c

\* fmt's %d of a non-negative int: its decimal digits.
DigitChars == <<"0", "1", "2", "3", "4", "5", "6", "7", "8", "9">>
RECURSIVE Digits(_)
Digits(n) ==
    IF n < 10 THEN <<DigitChars[n + 1]>>
    ELSE Digits(n \div 10) \o <<DigitChars[(n % 10) + 1]>>

\* Mutant of formatBindAddr: every address with a ':' is bracketed.
formatBindAddr_AlwaysWrap(s, p) ==
    (IF Contains(s, ":") THEN <<"[">> \o s \o <<"]">> ELSE s) \o <<":">> \o Digits(p)

\* if strings.Contains(s, ":") && !strings.Contains(s, "[") { s = "[" + s + "]" }
\* return fmt.Sprintf("%s:%d", s, p)
formatBindAddr(s, p) ==
    (IF Contains(s, ":") /\ ~Contains(s, "[") THEN <<"[">> \o s \o <<"]">> ELSE s)
        \o <<":">> \o Digits(p)

\* URI(): return formatBindAddr(gs.BindAddr, gs.Config.Port)
URI ==
    /\ uri' = formatBindAddr(Config.BindAddr, Config.Port)
    /\ UNCHANGED <<host, flags, th, stops, runsLeft, stopsLeft>>
    /\ UNCHANGED <<ginVars, pluginVars>>

\* A listener whose flags were bound to any address and port.
BindInit ==
    /\ New
    /\ NotStarted
    /\ host = NewHost(<<>>)
    /\ otel = NewOtelPlugin
    /\ simple = NewSimplePlugin
    /\ Config \in [Port : BindPorts, BindAddr : Addrs]

BindNext == URI

BindSpec == BindInit /\ [][BindNext]_vars

\* ========================================================= the host service
\* The host of the examples: the listener, the telemetry plugin and a simple
\* plugin, registered in any order.
HostComponents ==
    {[kind |-> "gin", name |-> "go-sdk"], [kind |-> "otel", name |-> "otel"],
     [kind |-> "simple", name |-> "simple"]}
HostRegistries ==
    {r \in [1..3 -> HostComponents] : \A i, j \in 1..3 : r[i] = r[j] => i = j}

\* The configurations the configuration source may resolve for the plugins.
HostOtelFlags ==
    {f \in OtelFlags : /\ f.serviceVersion # ""
                       /\ f.isEnabledTrace
                       /\ ~f.isEnabledMetric
                       /\ ~f.isEnabledLog}

\* The host's goroutines: the three of the listener's callers, the goroutines
\* Start runs the plugins' Run in, and the ones Shutdown receives the
\* acknowledgments in.
Joiner == "d"
Starter == "e"
HostCallers == Callers \cup {Joiner, Starter}

HostInit ==
    /\ New
    /\ Config = [Port |-> 0, BindAddr |-> <<>>]
    /\ th = [t \in HostCallers |-> IdleThread]
    /\ flags = {}
    /\ uri = <<>>
    /\ stops = <<>>
    /\ exited = FALSE
    /\ panicked = FALSE
    /\ runStarted = FALSE
    /\ portFrom = 0
    /\ runsLeft = Cardinality(HostComponents)
    /\ stopsLeft = 2 * Cardinality(HostComponents)
    /\ closures = <<>>
    /\ otel = NewOtelPlugin
    /\ simple = NewSimplePlugin
    /\ \E r \in HostRegistries : host = NewHost(r)

\* Init, after InitFlags on every component: the configuration source is
\* resolved once and binds every registered flag.
HostParse ==
    /\ ~Dead
    /\ host.pc = "initflags"
    /\ host.i > Len(host.registry)
    /\ otel' \in HostOtelFlags
    /\ simple' \in SimpleFlags
    /\ Config' = [Port |-> 1, BindAddr |-> <<>>]
    /\ host' = [host EXCEPT !.pc = "configure", !.i = 1]
    /\ UNCHANGED <<isEnabled, handlers, svr, router, mu, servers, lis, th, stops,
                   exited, runStarted, runsLeft, stopsLeft, closures, panicked,
                   portFrom, flags, uri>>

\* What Configure of component c returns: "nil" or the error.
ComponentConfigure(c) ==
    IF c.kind = "otel" THEN OtelConfigure
    ELSE IF c.kind = "simple" THEN SimpleConfigure
    ELSE "nil"

\* Mutant of InitAborts: Init goes on after a failed Configure.
InitAborts_Never(e) == FALSE

\* Init: the first Configure error aborts Init.
InitAborts(e) == e # "nil"

\* Init, Configure of the component it has reached: the first error is
\* returned, with the component it came from; nothing is rolled back.
HostConfigure ==
    /\ ~Dead
    /\ host.pc = "configure"
    /\ host.i <= Len(host.registry)
    /\ LET c == host.registry[host.i]
           e == ComponentConfigure(c)
       IN  /\ IF c.kind = "gin" THEN Configure ELSE UNCHANGED <<servers, router, svr>>
           /\ host' = [host EXCEPT
                 !.configured = Append(@, c.name),
                 !.i = @ + 1,
                 !.err = IF InitAborts(e) THEN [component |-> c.name, error |-> e]
                         ELSE "nil",
                 !.pc = IF InitAborts(e) THEN "init_failed"
                        ELSE IF host.i = Len(host.registry) THEN "ready"
                        ELSE "configure"]
    /\ UNCHANGED <<Config, isEnabled, handlers, mu, lis, th, stops, exited,
                   runStarted, runsLeft, stopsLeft, portFrom, flags, uri>>
    /\ UNCHANGED pluginVars

\* The example's route registration, between Init and Start.
HostAddHandler ==
    /\ host.pc = "ready"
    /\ handlers = <<>>
    /\ AddHandler

\* Start: every component's Run is launched as a goroutine of its own.
HostStart ==
    /\ ~Dead
    /\ host.pc = "ready"
    /\ host' = [host EXCEPT !.pc = "running"]
    /\ UNCHANGED <<th, stops, runsLeft, stopsLeft, flags, uri>>
    /\ UNCHANGED <<ginVars, pluginVars>>

\* The Run of the component of this kind is the next one to begin: the
\* goroutines are started in registration order, and every order of
\* registration is a start of the model.
RunTurn(kind) ==
    /\ host.pc \in {"running", "stopping", "stopped"}
    /\ \E k \in 1..Len(host.registry) :
         /\ host.registry[k].kind = kind
         /\ runsLeft = Len(host.registry) - k + 1

\* The listener's Run, in the goroutine Start launched for it.
HostGinRun ==
    /\ ~Dead
    /\ \/ RunTurn("gin") /\ RunCall(Runner)
       \/ RunConfigure(Runner)
       \/ RunRange(Runner)
       \/ RunInstall(Runner)
       \/ RunListen(Runner)
       \/ RunPort(Runner)
       \/ RunServe(Runner)
       \/ ServeReturn(Runner)

HostOtelRun == RunTurn("otel") /\ OtelRun(Starter)
HostSimpleRun == RunTurn("simple") /\ SimpleRun(Starter)

\* Mutant of ShutdownFansOut: every call of Shutdown stops the components.
ShutdownFansOut_Always(pc) == pc \in {"running", "stopped"}

\* Shutdown triggers Stop on the components only the first time it is called.
ShutdownFansOut(pc) == pc = "running"

\* Shutdown is called (an interrupt signal, or the host again).
HostShutdown ==
    /\ ~Dead
    /\ host.pc \in {"running", "stopped"}
    /\ host.calls < 2
    /\ IF ShutdownFansOut(host.pc)
       THEN host' = [host EXCEPT !.pc = "stopping", !.rounds = @ + 1]
       ELSE host' = [host EXCEPT !.calls = @ + 1,
                                 !.results = Append(@, host.results[Len(host.results)])]
    /\ UNCHANGED <<th, stops, runsLeft, stopsLeft, flags, uri>>
    /\ UNCHANGED <<ginVars, pluginVars>>

\* The Stop calls made on the component of this kind.
StopsOf(kind) == Cardinality({g \in 1..Len(stops) : stops[g].comp = kind})

\* The goroutine of Shutdown that stops the component of each kind.
StopReceiver == [kind \in Kinds |->
    CASE kind = "gin" -> Reloader
      [] kind = "otel" -> Client
      [] OTHER -> Joiner]

\* Shutdown's fan-out: Stop is called on each component in a goroutine of its
\* own, which receives from the channel Stop returned.
HostStop(kind) ==
    /\ host.pc = "stopping"
    /\ StopsOf(kind) < host.rounds
    /\ LET t == StopReceiver[kind]
       IN  /\ IF kind = "gin" THEN StopCall(t) ELSE PluginStop(t, kind)
           /\ th'[t].pc = "stop_recv"

\* The goroutines the components' Stop started.
HostStopStep ==
    /\ ~Dead
    /\ \E g \in 1..Len(stops) :
         \/ StopShutdown(g)
         \/ StopWait(g)
         \/ \E t \in HostCallers : StopSend(g, t)
         \/ \E t \in HostCallers : PluginStopSend(g, t)
         \/ OtelStopShutdown(g)

\* Requests to the listener.
HostRequest ==
    /\ ~Dead
    /\ \E r \in 1..Len(servers) : RequestArrive(r) \/ RequestFinish(r)

\* Mutant of AcksNeeded: Shutdown returns on the first acknowledgment.
AcksNeeded_One(n) == 1

\* The acknowledgments Shutdown waits for: one per registered component.
AcksNeeded(n) == n

\* The acknowledgments received from the channels of this round's Stop calls.
AcksReceived ==
    Cardinality({g \in 1..Len(stops) : stops[g].acks = 1}) -
        (host.rounds - 1) * Len(host.registry)

\* Shutdown returns once it has received every acknowledgment it waits for;
\* Stop carries no error, so the joined result is nil.
HostShutdownReturn ==
    /\ ~Dead
    /\ host.pc = "stopping"
    /\ AcksReceived >= AcksNeeded(Len(host.registry))
    /\ host' = [host EXCEPT !.pc = "stopped", !.calls = @ + 1,
                             !.results = Append(@, "nil")]
    /\ UNCHANGED <<th, stops, runsLeft, stopsLeft, flags, uri>>
    /\ UNCHANGED <<ginVars, pluginVars>>

HostNext ==
    \/ HostInitFlags
    \/ HostParse
    \/ HostConfigure
    \/ HostAddHandler
    \/ HostStart
    \/ HostGinRun
    \/ HostOtelRun
    \/ HostSimpleRun
    \/ HostShutdown
    \/ \E kind \in Kinds : HostStop(kind)
    \/ HostStopStep
    \/ HostRequest
    \/ HostShutdownReturn

HostSpec == HostInit /\ [][HostNext]_vars

\* ================================================================== claims

\* C1: at most one TCP listener of the component is bound at any time, under
\* every interleaving of Run, Stop and Reload.
C1_AtMostOneListenerBound == Cardinality(OpenLis) <= 1


\* C2: for every component, once the value sent on the channel Stop returned
\* has been received, the goroutine's cleanup has completed: no cleanup step
\* starts or is still running.
CleanupPending(g) ==
    \/ stops[g].comp = "gin" /\ stops[g].pc \in {"begin", "wait"}
    \/ /\ stops[g].comp = "otel"
       /\ stops[g].pc = "shutdown"
       /\ otel.shutdown # 0
       /\ closures[otel.shutdown].funcs # <<>>
C2_AckAfterCleanup ==
    \A g \in 1..Len(stops) : stops[g].acks > 0 => ~CleanupPending(g)

\* C3: every Stop call's channel delivers exactly one value to a receiving
\* caller: never a second value, and never zero values (a caller receiving
\* from the channel gets the value, unless the process has exited).
C3_ExactlyOneAck ==
    /\ [](\A g \in 1..Len(stops) : stops[g].acks <= 1)
    /\ \A t \in {Runner, Reloader} :
         (th[t].pc \in {"stop_recv", "reload_recv"}) ~>
             (th[t].pc \notin {"stop_recv", "reload_recv"} \/ exited)

\* C4: every write of the bound-port value happens while the writing
\* goroutine (in Run or Reload) holds the component's mutex.
C4_PortWritesHoldMutex ==
    [][Config'.Port # Config.Port =>
         (mu # NoCaller /\ th[mu].op \in {"Run", "Reload"})]_vars

\* Run's positions from the bind on: its listener is open until Serve returns.
HasListener(t) == th[t].pc \in {"run_port", "run_serve", "serving"}
\* A Reload has stored its configuration and its Run has not yet read back
\* the port of the listener it binds.
ReloadWindow ==
    /\ th[Reloader].op = "Reload"
    /\ th[Reloader].pc \notin {"run_serve", "serving"}

C6_ReloadedAcceptsOnNewPort ==
    (/\ th[Reloader].ret = "Reload"
     /\ th[Reloader].old # 0
     /\ th[Reloader].cfg # 0
     /\ th[Reloader].cfg # th[Reloader].old)
        => (~AcceptingOn(th[Reloader].old) /\ AcceptingOn(th[Reloader].cfg))

\* C7: while AddHandler has never been called the listener is not enabled,
\* no Run gets past its first statement, no router, server or listener
\* exists, and the port changes only by Reload storing its configuration;
\* the enabled flag changes only in a step that appends a handler.
RunPcs == {"run_configure", "run_range", "run_handlers", "run_listen", "run_port",
           "run_serve", "serving"}
C7_DisabledNeverBinds ==
    [][/\ (isEnabled' # isEnabled => Len(handlers') = Len(handlers) + 1)
       /\ (handlers' = <<>> =>
             /\ ~isEnabled'
             /\ lis' = <<>> /\ servers' = <<>> /\ router' = 0 /\ svr' = 0
             /\ \A t \in Callers : th'[t].pc \notin RunPcs
             /\ (Config' # Config => (th[Reloader].pc = "idle" /\
                                      th'[Reloader].pc = "reload_recv")))]_vars

\* C7 witness: no handler was ever added, and Run has returned both when
\* called directly and when called by Reload.
C7_Witness ==
    /\ handlers = <<>>
    /\ th[Reloader].ret = "Reload"
    /\ runsLeft = MaxRuns - 2
    /\ th[Runner].pc = "idle"

C9_ServedRoutesAreSnapshot ==
    \A t \in Callers :
        (th[t].pc = "serving" /\ lis[th[t].lis].open) =>
            servers[lis[th[t].lis].srv].routes = th[t].snap

\* C10: once a Run has begun, AddHandler leaves the handler list and the
\* enabled flag unchanged.
C10_HandlersFrozenAfterRun ==
    [][runStarted => (handlers' = handlers /\ isEnabled' = isEnabled)]_vars

C12_ListenErrorReturned ==
    [][\A t \in Callers :
         (/\ th[t].pc = "run_listen"
          /\ ListenPorts(Config.Port) = {}
          /\ (th'[t] # th[t] \/ exited' # exited)) =>
            (~exited' /\ th'[t].pc = "idle" /\ th'[t].err # "nil")]_vars

\* C13: when Stop has been called on a listener that is serving, with a
\* request in flight, and a caller is receiving from its channel, the
\* acknowledgment is eventually delivered, even when the request never
\* finishes (the wait for in-flight requests ends at a grace deadline).
C13_AckWithinGrace ==
    \A g \in 1..MaxStops :
        (/\ g \in 1..Len(stops)
         /\ stops[g].pc = "begin"
         /\ svr # 0
         /\ Serving(svr) # {}
         /\ servers[svr].active > 0
         /\ \E t \in Callers : Receiving(t, g))
            ~> (exited \/ (g \in 1..Len(stops) /\ stops[g].acks = 1))

\* C16: IsRunning() is true exactly when the listener service is running,
\* that is while a Run is serving on an open listener: false after
\* construction and after Configure alone, false again once stopped.
C16_IsRunningIffServing ==
    IsRunning <=> (\E t \in Callers : th[t].pc = "serving" /\ lis[th[t].lis].open)

\* C20: every Run of an enabled listener installs every queued handler on a
\* fresh router exactly once, in the order the handlers were added: on every
\* router the installed handlers are the first handlers of the list, each
\* once, and a Run whose loop has ended has left a router holding exactly the
\* handlers it iterated.
C20_HandlersInstalledOnceInOrder ==
    /\ \A r \in 1..Len(servers) :
          /\ Len(servers[r].routes) <= Len(handlers)
          /\ servers[r].routes = SubSeq(handlers, 1, Len(servers[r].routes))
    /\ \A t \in Callers :
          th[t].pc \in {"run_listen", "run_port", "run_serve", "serving"} =>
              \E r \in 1..Len(servers) : servers[r].routes = th[t].snap

\* C15: for two components constructed with different names, calling
\* InitFlags once on each never registers a key twice: the key sets are
\* disjoint and the second registration does not find a key already defined.
C15_FlagKeysDisjoint ==
    /\ ~panicked
    /\ host.i > 2 =>
          InitFlagsKeys(host.registry[1]) \cap InitFlagsKeys(host.registry[2]) = {}

\* The names of the first n components of the host's registry.
RegisteredNames(n) == [k \in 1..n |-> host.registry[k].name]

\* C17: Init calls InitFlags on every component in registration order, then
\* Configure on every component in registration order; when Configure of the
\* component at position k fails, Init returns that error, no component after
\* k is configured, and the components before k stay configured.
C17_InitInOrderFirstErrorAborts ==
    /\ host.flagged = RegisteredNames(Len(host.flagged))
    /\ host.configured = RegisteredNames(Len(host.configured))
    /\ host.configured # <<>> => Len(host.flagged) = Len(host.registry)
    /\ \A k \in 1..Len(host.configured) :
          ComponentConfigure(host.registry[k]) # "nil" =>
              /\ Len(host.configured) = k
              /\ host.pc = "init_failed"
              /\ host.err = [component |-> host.registry[k].name,
                             error |-> ComponentConfigure(host.registry[k])]
              /\ \A j \in 1..(k - 1) : host.registry[j].kind = "gin" => IsRunning
    /\ host.pc = "ready" =>
          /\ Len(host.configured) = Len(host.registry)
          /\ host.err = "nil"

\* C14: Stop never blocks its caller.  The step that calls Stop of any
\* component only creates the channel and starts the goroutine at its first
\* statement: no server, listener or telemetry closure changes and nothing is
\* sent, and the caller is left either returned or at its receive from the
\* channel.  Every step that does cleanup work (shuts a server down, runs a
\* telemetry shutdown closure) moves no caller.
C14_StopReturnsBeforeCleanup ==
    [][/\ Len(stops') > Len(stops) =>
            /\ Len(stops') = Len(stops) + 1
            /\ \A g \in 1..Len(stops) : stops'[g] = stops[g]
            /\ LET new == stops'[Len(stops')]
               IN  /\ new.pc = IF new.comp = "gin" THEN "begin" ELSE "send"
                   /\ new.acks = 0
            /\ servers' = servers
            /\ lis' = lis
            /\ closures' = closures
            /\ \E t \in DOMAIN th :
                 /\ th[t].pc = "idle"
                 /\ \/ th'[t].pc = "idle"
                    \/ th'[t].pc = "stop_recv" /\ th'[t].ch = Len(stops')
                 /\ \A u \in DOMAIN th \ {t} : th'[u] = th[u]
       /\ (\/ \E r \in 1..Len(servers) :
                 servers'[r].inShutdown /\ ~servers[r].inShutdown
           \/ \E c \in 1..Len(closures) : closures'[c] # closures[c]) =>
            /\ th' = th
            /\ Len(stops') = Len(stops)
      ]_vars

\* C14 witness: Stop of the serving listener was called and its caller is at
\* the receive, while the goroutine has not begun: the server is not shutting
\* down and its listener is still open; the plugins' Stop have been called too.
C14_Witness ==
    /\ \E g \in 1..Len(stops) :
         /\ stops[g].comp = "gin"
         /\ stops[g].pc = "begin"
         /\ th[Reloader].pc = "stop_recv"
         /\ th[Reloader].ch = g
    /\ svr # 0
    /\ ~servers[svr].inShutdown
    /\ Serving(svr) # {}
    /\ StopsOf("otel") = 1
    /\ StopsOf("simple") = 1

\* C17 witness: Configure of the component at position 2 failed after the
\* listener at position 1 was configured; the third was not configured.
C17_Witness ==
    /\ host.pc = "init_failed"
    /\ Len(host.configured) = 2
    /\ host.registry[1].kind = "gin"
    /\ svr # 0

\* C18: for N registered components, Shutdown calls Stop on all N and returns
\* only after each of the N stop channels has delivered its acknowledgment,
\* in whatever order the Stop calls and the acknowledgments happen.
C18_ShutdownAfterAllAcks ==
    host.calls >= 1 =>
        \A k \in 1..Len(host.registry) :
            \E g \in 1..Len(stops) :
                /\ stops[g].comp = host.registry[k].kind
                /\ stops[g].acks = 1

\* C18 witness: Shutdown has returned after the three acknowledgments, the
\* Stop calls having been made in the reverse of the registration order.
C18_Witness ==
    /\ host.pc = "stopped"
    /\ host.calls = 1
    /\ Len(stops) = Len(host.registry)
    /\ \A g \in 1..Len(stops) :
         /\ stops[g].acks = 1
         /\ stops[g].comp = host.registry[Len(stops) - g + 1].kind

\* C19: Shutdown is idempotent.  Once a second call of Shutdown has returned,
\* its result is the result of the first, Stop has been called exactly once
\* on every component, and the second call waited for nothing: the host is
\* stopped and no goroutine is receiving from a stop channel.
C19_ShutdownIdempotent ==
    host.calls = 2 =>
        /\ host.results[2] = host.results[1]
        /\ \A kind \in Kinds : StopsOf(kind) = 1
        /\ host.rounds = 1
        /\ host.pc = "stopped"
        /\ \A t \in DOMAIN th : th[t].pc # "stop_recv"

\* C19 witness: the second call of Shutdown has returned.
C19_Witness ==
    /\ host.calls = 2
    /\ Len(host.results) = 2
    /\ Len(stops) = Len(host.registry)

\* C25: the telemetry plugin requires a non-empty exporter endpoint only when
\* it is enabled: with isEnabled = false, Configure does not fail because the
\* endpoint is empty, and Run sets up no provider (no shutdown function is
\* stored, no closure exists).
C25_EndpointRequiredOnlyWhenEnabled ==
    ~otel.isEnabled =>
        /\ host.pc = "init_failed" => host.err.error # ErrEndpointEmpty
        /\ otel.shutdown = 0
        /\ closures = <<>>

\* C27: Stop can be called on a component in any lifecycle state without
\* faulting: never run, disabled, or after a Run that returned an error
\* before finishing setup.  Its goroutine never calls an unset shutdown
\* callback (the process does not panic) and never shuts down an unset server.
C27_StopNeverFaults ==
    /\ ~panicked
    /\ \A g \in 1..Len(stops) :
          stops[g].pc = "wait" => stops[g].srv \in 1..Len(servers)

\* C28: a component's cleanup does not depend on the caller consuming the
\* acknowledgment: once Stop has been called on a telemetry plugin whose
\* shutdown function still has provider cleanups to invoke, they are
\* eventually invoked (or the process has ended), whether or not anyone
\* receives from the returned channel.
C28_CleanupWithoutReceiver ==
    (/\ \E g \in 1..Len(stops) : stops[g].comp = "otel" /\ stops[g].pc = "send"
     /\ otel.shutdown # 0
     /\ closures[otel.shutdown].funcs # <<>>)
        ~> (Dead \/ (otel.shutdown # 0 /\ closures[otel.shutdown].funcs = <<>>))

\* Exactly one Run and one Stop have been invoked on the listener, both
\* directly: Reload was not called.
OneRunOneStop ==
    /\ runsLeft = MaxRuns - 1
    /\ stopsLeft = MaxStops - 1
    /\ Len(stops) = 1
    /\ th[Reloader].op # "Reload"
    /\ th[Reloader].ret # "Reload"

\* C21: Stop is effective whatever Run is doing.  With one Run in progress on
\* an enabled listener (at any statement, before or after it built its
\* server) and the one Stop's goroutine at its send with the caller
\* receiving, the acknowledgment is delivered and the component ends up not
\* accepting connections with Run returned, unless Run, Stop or Reload is
\* invoked again.
C21_StopEffectiveDuringRun ==
    (/\ OneRunOneStop
     /\ th[Runner].op = "Run"
     /\ th[Runner].pc \in RunPcs \cup {"serving"}
     /\ stops[1].pc = "send"
     /\ \E t \in Callers : Receiving(t, 1))
        ~> \/ ~OneRunOneStop
           \/ /\ stops[1].acks = 1
              /\ Accepting = {}
              /\ th[Runner].pc = "idle"

\* The address is one bracketed literal: it begins with '[' and ends with ']'.
Bracketed(s) == Len(s) >= 2 /\ s[1] = "[" /\ s[Len(s)] = "]"

\* C26 as stated: URI() is address:port, the address wrapped in one pair of
\* brackets exactly when it contains a ':' and is not already bracketed.
C26_WrappedIffColonAndNotBracketed ==
    uri # <<>> =>
        LET s == Config.BindAddr
        IN  uri = (IF Contains(s, ":") /\ ~Bracketed(s)
                   THEN <<"[">> \o s \o <<"]">> ELSE s)
                  \o <<":">> \o Digits(Config.Port)

\* C26 amended: URI() is address:port, the address either unchanged or wrapped
\* in one pair of brackets; it is wrapped exactly when it contains a ':' and
\* no '[' anywhere, so the result has a second '[' only if the address had.
C26_WrappedIffColonAndNoOpenBracket ==
    uri # <<>> =>
        LET s == Config.BindAddr
            port == <<":">> \o Digits(Config.Port)
            wrapped == <<"[">> \o s \o <<"]">>
        IN  /\ uri \in {s \o port, wrapped \o port}
            /\ uri = wrapped \o port <=>
                  ((\E k \in 1..Len(s) : s[k] = ":") /\
                   (\A k \in 1..Len(s) : s[k] # "["))
            /\ Cardinality({k \in 1..Len(uri) : uri[k] = "["}) <=
                  IF Cardinality({k \in 1..Len(s) : s[k] = "["}) > 1
                  THEN Cardinality({k \in 1..Len(s) : s[k] = "["}) ELSE 1

\* C26 witness: URI() of the address "::a" with the default port is
\* "[::a]:3000".
C26_Witness ==
    /\ Config.BindAddr = <<":", ":", "a">>
    /\ Config.Port = defaultPort
    /\ uri = <<"[", ":", ":", "a", "]", ":", "3", "0", "0", "0">>

\* The cleanups a shutdown closure has invoked, in invocation order, and the
\* join of the errors those invocations returned.
InvokedFns(c) == [k \in 1..Len(c.invoked) |-> c.invoked[k].fn]
InvokedErrs(c) ==
    LET Failed(e) == e.failed
        failed == SelectSeq(c.invoked, Failed)
    IN  [k \in 1..Len(failed) |-> ShutdownErr(failed[k].fn)]

\* C23: across the sequential invocations of the shutdown function a
\* successful setup returned, each registered provider cleanup is invoked
\* exactly once: none before the first invocation, all of them on the first
\* one, in registration order, with their errors joined into its result; no
\* cleanup is invoked on a later invocation, which returns nil.
C23_CleanupsOnceAcrossShutdowns ==
    \A c \in 1..Len(closures) :
        LET cl == closures[c]
        IN  /\ \A j, k \in 1..Len(cl.invoked) :
                  cl.invoked[j].fn = cl.invoked[k].fn => j = k
            /\ cl.err = <<>> /\ cl.rets = <<>> =>
                  cl.invoked = <<>> /\ cl.funcs = cl.created
            /\ cl.err = <<>> /\ cl.rets # <<>> =>
                  /\ InvokedFns(cl) = cl.created
                  /\ cl.funcs = <<>>
                  /\ cl.rets[1] = InvokedErrs(cl)
                  /\ \A k \in 2..Len(cl.rets) : cl.rets[k] = <<>>

\* C23 witness: the shutdown function of a setup that created two providers
\* or more was invoked twice; the first invocation returned an error.
C23_Witness ==
    \E c \in 1..Len(closures) :
        /\ closures[c].err = <<>>
        /\ Len(closures[c].created) >= 2
        /\ Len(closures[c].rets) = 2
        /\ closures[c].rets[1] # <<>>
        /\ closures[c].rets[2] = <<>>

\* C24: if creating the k-th telemetry provider (trace, then metric, then
\* log, of those enabled) fails during setup, then when setup returns the
\* providers created are exactly the k-1 before it, the cleanup of each of
\* them has been invoked exactly once and in order, and the returned error
\* is the creation error joined with the cleanup errors; a later call of the
\* returned shutdown function invokes no cleanup and returns nil.
C24_FailedSetupCleansUpOnce ==
    \A c \in 1..Len(closures) :
        LET cl == closures[c]
            k == Len(cl.created) + 1
        IN  cl.err # <<>> =>
              /\ k <= Len(EnabledProviders)
              /\ cl.created = SubSeq(EnabledProviders, 1, k - 1)
              /\ InvokedFns(cl) = cl.created
              /\ cl.err = <<CreateErr(EnabledProviders[k])>> \o InvokedErrs(cl)
              /\ cl.funcs = <<>>
              /\ \A j \in 1..Len(cl.rets) : cl.rets[j] = <<>>

\* C24 witness: creating the third provider failed, a cleanup of the two
\* created before returned an error, and the returned shutdown function has
\* been called since.
C24_Witness ==
    \E c \in 1..Len(closures) :
        /\ Len(closures[c].created) = 2
        /\ Len(closures[c].err) >= 2
        /\ closures[c].err[1] = CreateErr("log")
        /\ Len(closures[c].rets) >= 1

\* C22: the telemetry shutdown callback is invoked when the listener that
\* set telemetry up stops serving, and its error is not dropped: the step in
\* which Run returns is the one that invokes the callback, and when the
\* callback returns a non-nil error, the error Run returns is non-nil.
C22_ShutdownErrorReported ==
    [][\A t \in Callers :
          (th[t].sd # 0 /\ th'[t].pc = "idle") =>
              LET cl == closures'[th[t].sd]
              IN  /\ Len(cl.rets) = Len(closures[th[t].sd].rets) + 1
                  /\ cl.rets[Len(cl.rets)] # <<>> => th'[t].err # "nil"
      ]_vars

====
